---------------------------- MODULE Spec2Model ----------------------------
(***************************************************************************)
(* Fama-French industry assignment (5, 12 and 38 groups) from SIC codes.   *)
(*                                                                         *)
(* The model follows the three Python functions assign_ff5_industry,       *)
(* assign_ff12_industry and assign_ff38_industry, each with its nested     *)
(* classifier get_ffN_code and its name table FFN_NAMES.                   *)
(*                                                                         *)
(* A cell of a pandas column is a record tagged with its Python type:      *)
(*   int    [kind |-> "int",   val    |-> n]                               *)
(*   float  [kind |-> "float", tenths |-> t]   the float t/10              *)
(*   str    [kind |-> "str",   text   |-> s]                               *)
(*   None / NaN  [kind |-> "nan"]                                          *)
(* A DataFrame is a function from column names to columns, a column a      *)
(* sequence of cells (one per row).                                        *)
(***************************************************************************)
EXTENDS Integers, Sequences, FiniteSets, TLC

VARIABLES
    df,            \* the caller's input batch
    sic_col,       \* argument sic_col
    prefix,        \* argument prefix
    ind_code_col,  \* argument ind_code_col
    pc,            \* "ready" before the call, "done" after it
    out,           \* what the call gave back: a batch, or the exception raised
    scheme,        \* which annotator runs: 5, 12 or 38 (0: none yet)
    rows,          \* apply loop: the batch, one row per integer of first..last
    row,           \* apply loop: the SIC value of the next row
    sic,           \* apply loop: the value last handed to get_ffN_code, as int
    code,          \* apply loop: what get_ffN_code returned for it
    codes,         \* apply loop: the distinct codes returned for rows in 0..MaxSic
    pairs          \* two apply loops on one batch: the distinct pairs <<12-group
                   \* code, 5-group code>> returned for rows in 0..MaxSic

vars == <<df, sic_col, prefix, ind_code_col, pc, out, scheme, rows, row, sic, code, codes, pairs>>

annVars == <<df, sic_col, prefix, ind_code_col, pc, out>>
scanVars == <<rows, row, sic, code, codes, pairs>>

---------------------------------------------------------------------------
(* Bounds of the model *)

\* rows of the input batch of an annotator call
MaxRows == 2
\* how far below 0 and above MaxSic the scanned batch reaches
Margin == 30
\* rows of a short scanned batch
BlockLen == 10
\* the largest 4-digit SIC code
MaxSic == 9999

---------------------------------------------------------------------------
(* Cells *)

nan == [kind |-> "nan"]
IntCell(n) == [kind |-> "int", val |-> n]
FloatCell(t) == [kind |-> "float", tenths |-> t]
StrCell(s) == [kind |-> "str", text |-> s]

\* a null test that finds nothing null: every value goes on to int()
isnull_Never(v) == FALSE

\* pd.isnull on a scalar: None and NaN are null, everything else is not
isnull(v) == v.kind = "nan"

Digits == <<"0", "1", "2", "3", "4", "5", "6", "7", "8", "9">>
IsDigit(ch) == \E d \in 1..10 : Digits[d] = ch
DigitValue(ch) == (CHOOSE d \in 1..10 : Digits[d] = ch) - 1

RECURSIVE AllDigits(_)
AllDigits(s) == IF Len(s) = 0 THEN TRUE
                ELSE IsDigit(Head(s)) /\ AllDigits(Tail(s))

RECURSIVE DigitsValue(_, _)
DigitsValue(s, acc) == IF Len(s) = 0 THEN acc
                       ELSE DigitsValue(Tail(s), 10 * acc + DigitValue(Head(s)))

RECURSIVE lstrip(_)
lstrip(s) == IF Len(s) > 0 /\ Head(s) = " " THEN lstrip(Tail(s)) ELSE s

RECURSIVE rstrip(_)
rstrip(s) == IF Len(s) > 0 /\ SubSeq(s, Len(s), Len(s)) = " "
             THEN rstrip(SubSeq(s, 1, Len(s) - 1)) ELSE s

Returned(v) == [raised |-> FALSE, val |-> v]
Raised(e) == [raised |-> TRUE, exc |-> e]

\* Python's int() on text: surrounding blanks, an optional sign, decimal digits
ParseInt(text) ==
    LET s == rstrip(lstrip(text))
        signed == Len(s) > 0 /\ (Head(s) = "-" \/ Head(s) = "+")
        body == IF signed THEN Tail(s) ELSE s
    IN  IF Len(body) = 0 \/ ~AllDigits(body) THEN Raised("ValueError")
        ELSE IF signed /\ Head(s) = "-" THEN Returned(0 - DigitsValue(body, 0))
        ELSE Returned(DigitsValue(body, 0))

\* Python's int() on a float: the integer part, truncated toward zero
Truncate(tenths) == IF tenths >= 0 THEN tenths \div 10 ELSE 0 - ((0 - tenths) \div 10)

\* Python's int(): an int as it is, a float truncated, text parsed; int(NaN)
\* and unparsable text raise ValueError
int(v) ==
    CASE v.kind = "int" -> Returned(v.val)
      [] v.kind = "float" -> Returned(Truncate(v.tenths))
      [] v.kind = "str" -> ParseInt(v.text)
      [] v.kind = "nan" -> Raised("ValueError")

\* Python's chained comparison lo <= sic <= hi
Between(lo, s, hi) == lo <= s /\ s <= hi

Min(S) == CHOOSE x \in S : \A y \in S : x <= y

---------------------------------------------------------------------------
(* The 5-group scheme: industries_ff5.py *)

\* FF5_NAMES: code -> short name
FF5_NAMES ==
    1 :> "Cnsmr" @@
    2 :> "Manuf" @@
    3 :> "HiTec" @@
    4 :> "Hlth" @@
    5 :> "Other"

\* 1 Cnsmr: Consumer Durables, NonDurables, Wholesale, Retail, and Some Services  (lines 60-67)
FF5Rule1(s) ==
    \/ Between(100, s, 999)
    \/ Between(2000, s, 2399)
    \/ Between(2700, s, 2749)
    \/ Between(2770, s, 2799)
    \/ Between(3100, s, 3199)
    \/ Between(3940, s, 3989)
    \/ Between(2500, s, 2519)
    \/ Between(2590, s, 2599)
    \/ Between(3630, s, 3659)
    \/ Between(3710, s, 3711)
    \/ 3714 = s
    \/ 3716 = s
    \/ Between(3750, s, 3751)
    \/ 3792 = s
    \/ Between(3900, s, 3939)
    \/ Between(3990, s, 3999)
    \/ Between(5000, s, 5999)
    \/ Between(7200, s, 7299)
    \/ Between(7600, s, 7699)

\* 2 Manuf: Manufacturing, Energy, and Utilities  (lines 70-77)
FF5Rule2(s) ==
    \/ Between(2520, s, 2589)
    \/ Between(2600, s, 2699)
    \/ Between(2750, s, 2769)
    \/ Between(2800, s, 2829)
    \/ Between(2840, s, 2899)
    \/ Between(3000, s, 3099)
    \/ Between(3200, s, 3569)
    \/ Between(3580, s, 3629)
    \/ Between(3700, s, 3709)
    \/ Between(3712, s, 3713)
    \/ 3715 = s
    \/ Between(3717, s, 3749)
    \/ Between(3752, s, 3791)
    \/ Between(3793, s, 3799)
    \/ Between(3830, s, 3839)
    \/ Between(3860, s, 3899)
    \/ Between(1200, s, 1399)
    \/ Between(2900, s, 2999)
    \/ Between(4900, s, 4949)

\* rule 3 put together from rules 6 (BusEq) and 7 (Telcm) of the 12-group scheme
FF5Rule3_FromFF12(s) ==
    \/ Between(3570, s, 3579)
    \/ Between(3660, s, 3692)
    \/ Between(3694, s, 3699)
    \/ Between(3810, s, 3829)
    \/ Between(7370, s, 7379)
    \/ Between(4800, s, 4899)

\* 3 HiTec: Business Equipment, Telephone and Television Transmission  (lines 80-85)
FF5Rule3(s) ==
    \/ Between(3570, s, 3579)
    \/ 3622 = s
    \/ Between(3660, s, 3692)
    \/ Between(3694, s, 3699)
    \/ Between(3810, s, 3839)
    \/ Between(7370, s, 7372)
    \/ 7373 = s
    \/ 7374 = s
    \/ 7375 = s
    \/ 7376 = s
    \/ 7377 = s
    \/ 7378 = s
    \/ 7379 = s
    \/ 7391 = s
    \/ Between(8730, s, 8734)
    \/ Between(4800, s, 4899)

\* 4 Hlth: Healthcare, Medical Equipment, and Drugs  (lines 88-90)
FF5Rule4(s) ==
    \/ Between(2830, s, 2839)
    \/ 3693 = s
    \/ Between(3840, s, 3859)
    \/ Between(8000, s, 8099)

\* the predicate of rule k (k in 1..4) of get_ff5_code
FF5Rule(k, s) ==
    CASE k = 1 -> FF5Rule1(s)
      [] k = 2 -> FF5Rule2(s)
      [] k = 3 -> FF5Rule3(s)
      [] k = 4 -> FF5Rule4(s)

\* the single-value equality terms of get_ff5_code: <<SIC value, rule listing it>>
FF5_SINGLETONS ==
    {<<3714, 1>>, <<3716, 1>>, <<3792, 1>>, <<3715, 2>>, <<3622, 3>>,
     <<7373, 3>>, <<7374, 3>>, <<7375, 3>>, <<7376, 3>>, <<7377, 3>>,
     <<7378, 3>>, <<7379, 3>>, <<7391, 3>>, <<3693, 4>>}

\* the if-chain of get_ff5_code on an int: the first rule that matches, else 5
ff5_match(s) ==
    LET hits == {k \in 1..4 : FF5Rule(k, s)}
    IN  IF hits = {} THEN IntCell(5) ELSE IntCell(Min(hits))

\* get_ff5_code: NaN for a null value, else the if-chain on int(sic)
get_ff5_code(v) ==
    IF isnull(v) THEN Returned(nan)
    ELSE LET i == int(v)
         IN  IF i.raised THEN i ELSE Returned(ff5_match(i.val))

---------------------------------------------------------------------------
(* The 12-group scheme: industries_ff12.py *)

\* FF12_NAMES: code -> short name
FF12_NAMES ==
    1 :> "NoDur" @@
    2 :> "Durbl" @@
    3 :> "Manuf" @@
    4 :> "Enrgy" @@
    5 :> "Chems" @@
    6 :> "BusEq" @@
    7 :> "Telcm" @@
    8 :> "Utils" @@
    9 :> "Shops" @@
    10 :> "Hlth" @@
    11 :> "Money" @@
    12 :> "Other"

\* 1 NoDur: Consumer NonDurables -- Food, Tobacco, Textiles, Apparel, Leather, Toys  (lines 67-69)
FF12Rule1(s) ==
    \/ Between(100, s, 999)
    \/ Between(2000, s, 2399)
    \/ Between(2700, s, 2749)
    \/ Between(2770, s, 2799)
    \/ Between(3100, s, 3199)
    \/ Between(3940, s, 3989)

\* 2 Durbl: Consumer Durables -- Cars, TVs, Furniture, Household Appliances  (lines 72-76)
FF12Rule2(s) ==
    \/ Between(2500, s, 2519)
    \/ Between(2590, s, 2599)
    \/ Between(3630, s, 3659)
    \/ Between(3710, s, 3711)
    \/ 3714 = s
    \/ 3716 = s
    \/ Between(3750, s, 3751)
    \/ 3792 = s
    \/ Between(3900, s, 3939)
    \/ Between(3990, s, 3999)

\* 3 Manuf: Manufacturing -- Machinery, Trucks, Planes, Off Furn, Paper, Com Printing  (lines 79-84)
FF12Rule3(s) ==
    \/ Between(2520, s, 2589)
    \/ Between(2600, s, 2699)
    \/ Between(2750, s, 2769)
    \/ Between(3000, s, 3099)
    \/ Between(3200, s, 3569)
    \/ Between(3580, s, 3629)
    \/ Between(3700, s, 3709)
    \/ Between(3712, s, 3713)
    \/ 3715 = s
    \/ Between(3717, s, 3749)
    \/ Between(3752, s, 3791)
    \/ Between(3793, s, 3799)
    \/ Between(3830, s, 3839)
    \/ Between(3860, s, 3899)

\* 4 Enrgy: Oil, Gas, and Coal Extraction and Products  (lines 87-88)
FF12Rule4(s) ==
    \/ Between(1200, s, 1399)
    \/ Between(2900, s, 2999)

\* rule 5 with the one range 2800..2899 of the 38-group scheme's Chems
FF12Rule5_Wide(s) == Between(2800, s, 2899)

\* 5 Chems: Chemicals and Allied Products  (lines 91-92)
FF12Rule5(s) ==
    \/ Between(2800, s, 2829)
    \/ Between(2840, s, 2899)

\* 6 BusEq: Business Equipment -- Computers, Software, and Electronic Equipment  (lines 95-97)
FF12Rule6(s) ==
    \/ Between(3570, s, 3579)
    \/ Between(3660, s, 3692)
    \/ Between(3694, s, 3699)
    \/ Between(3810, s, 3829)
    \/ Between(7370, s, 7379)

\* rule 7 with the upper end of rule 8 typed for its own
FF12Rule7_Wide(s) == Between(4800, s, 4949)

\* 7 Telcm: Telephone and Television Transmission  (lines 100-101)
FF12Rule7(s) ==
    \/ Between(4800, s, 4899)

\* 8 Utils: Utilities  (lines 104-105)
FF12Rule8(s) ==
    \/ Between(4900, s, 4949)

\* 9 Shops: Wholesale, Retail, and Some Services (Laundries, Repair Shops)  (lines 108-109)
FF12Rule9(s) ==
    \/ Between(5000, s, 5999)
    \/ Between(7200, s, 7299)
    \/ Between(7600, s, 7699)

\* 10 Hlth: Healthcare, Medical Equipment, and Drugs  (lines 112-114)
FF12Rule10(s) ==
    \/ Between(2830, s, 2839)
    \/ 3693 = s
    \/ Between(3840, s, 3859)
    \/ Between(8000, s, 8099)

\* 11 Money: Finance  (lines 117-118)
FF12Rule11(s) ==
    \/ Between(6000, s, 6999)

\* the predicate of rule k (k in 1..11) of get_ff12_code
FF12Rule(k, s) ==
    CASE k = 1 -> FF12Rule1(s)
      [] k = 2 -> FF12Rule2(s)
      [] k = 3 -> FF12Rule3(s)
      [] k = 4 -> FF12Rule4(s)
      [] k = 5 -> FF12Rule5(s)
      [] k = 6 -> FF12Rule6(s)
      [] k = 7 -> FF12Rule7(s)
      [] k = 8 -> FF12Rule8(s)
      [] k = 9 -> FF12Rule9(s)
      [] k = 10 -> FF12Rule10(s)
      [] k = 11 -> FF12Rule11(s)

\* the single-value equality terms of get_ff12_code: <<SIC value, rule listing it>>
FF12_SINGLETONS ==
    {<<3714, 2>>, <<3716, 2>>, <<3792, 2>>, <<3715, 3>>, <<3693, 10>>}

\* the if-chain of get_ff12_code on an int: the first rule that matches, else 12
ff12_match(s) ==
    LET hits == {k \in 1..11 : FF12Rule(k, s)}
    IN  IF hits = {} THEN IntCell(12) ELSE IntCell(Min(hits))

\* get_ff12_code: NaN for a null value, else the if-chain on int(sic)
get_ff12_code(v) ==
    IF isnull(v) THEN Returned(nan)
    ELSE LET i == int(v)
         IN  IF i.raised THEN i ELSE Returned(ff12_match(i.val))

---------------------------------------------------------------------------
(* The 38-group scheme: industries_ff38.py *)

\* FF38_NAMES: code -> short name
FF38_NAMES ==
    1 :> "Agric" @@
    2 :> "Mines" @@
    3 :> "Oil" @@
    4 :> "Stone" @@
    5 :> "Cnstr" @@
    6 :> "Food" @@
    7 :> "Smoke" @@
    8 :> "Txtls" @@
    9 :> "Apprl" @@
    10 :> "Wood" @@
    11 :> "Chair" @@
    12 :> "Paper" @@
    13 :> "Print" @@
    14 :> "Chems" @@
    15 :> "Ptrlm" @@
    16 :> "Rubbr" @@
    17 :> "Lethr" @@
    18 :> "Glass" @@
    19 :> "Metal" @@
    20 :> "MtlPr" @@
    21 :> "Machn" @@
    22 :> "Elctr" @@
    23 :> "Cars" @@
    24 :> "Instr" @@
    25 :> "Manuf" @@
    26 :> "Trans" @@
    27 :> "Phone" @@
    28 :> "TV" @@
    29 :> "Utils" @@
    30 :> "Garbg" @@
    31 :> "Steam" @@
    32 :> "Water" @@
    33 :> "Whlsl" @@
    34 :> "Rtail" @@
    35 :> "Money" @@
    36 :> "Srvc" @@
    37 :> "Govt" @@
    38 :> "Other"

\* the range lo <= sic <= hi of each of the 37 rules of get_ff38_code, in order
FF38_RANGES == <<
    <<100, 999>>,   \* 1 Agric: Agriculture, forestry, and fishing
    <<1000, 1299>>,   \* 2 Mines: Mining
    <<1300, 1399>>,   \* 3 Oil: Oil and Gas Extraction
    <<1400, 1499>>,   \* 4 Stone: Nonmetalic Minerals Except Fuels
    <<1500, 1799>>,   \* 5 Cnstr: Construction
    <<2000, 2099>>,   \* 6 Food: Food and Kindred Products
    <<2100, 2199>>,   \* 7 Smoke: Tobacco Products
    <<2200, 2299>>,   \* 8 Txtls: Textile Mill Products
    <<2300, 2399>>,   \* 9 Apprl: Apparel and other Textile Products
    <<2400, 2499>>,   \* 10 Wood: Lumber and Wood Products
    <<2500, 2599>>,   \* 11 Chair: Furniture and Fixtures
    <<2600, 2661>>,   \* 12 Paper: Paper and Allied Products
    <<2700, 2799>>,   \* 13 Print: Printing and Publishing
    <<2800, 2899>>,   \* 14 Chems: Chemicals and Allied Products
    <<2900, 2999>>,   \* 15 Ptrlm: Petroleum and Coal Products
    <<3000, 3099>>,   \* 16 Rubbr: Rubber and Miscellaneous Plastics Products
    <<3100, 3199>>,   \* 17 Lethr: Leather and Leather Products
    <<3200, 3299>>,   \* 18 Glass: Stone, Clay and Glass Products
    <<3300, 3399>>,   \* 19 Metal: Primary Metal Industries
    <<3400, 3499>>,   \* 20 MtlPr: Fabricated Metal Products
    <<3500, 3599>>,   \* 21 Machn: Machinery, Except Electrical
    <<3600, 3699>>,   \* 22 Elctr: Electrical and Electronic Equipment
    <<3700, 3799>>,   \* 23 Cars: Transportation Equipment
    <<3800, 3879>>,   \* 24 Instr: Instruments and Related Products
    <<3900, 3999>>,   \* 25 Manuf: Miscellaneous Manufacturing Industries
    <<4000, 4799>>,   \* 26 Trans: Transportation
    <<4800, 4829>>,   \* 27 Phone: Telephone and Telegraph Communication
    <<4830, 4899>>,   \* 28 TV: Radio and Television Broadcasting
    <<4900, 4949>>,   \* 29 Utils: Electric, Gas, and Water Supply
    <<4950, 4959>>,   \* 30 Garbg: Sanitary Services
    <<4960, 4969>>,   \* 31 Steam: Steam Supply
    <<4970, 4979>>,   \* 32 Water: Irrigation Systems
    <<5000, 5199>>,   \* 33 Whlsl: Wholesale
    <<5200, 5999>>,   \* 34 Rtail: Retail Stores
    <<6000, 6999>>,   \* 35 Money: Finance, Insurance, and Real Estate
    <<7000, 8999>>,   \* 36 Srvc: Services
    <<9000, 9999>>    \* 37 Govt: Public Administration
>>

\* rule 37 with its upper end left out: 9000 <= sic
FF38Rule_OpenGovt(k, s) ==
    IF k = 37 THEN 9000 <= s
    ELSE Between(FF38_RANGES[k][1], s, FF38_RANGES[k][2])

\* the predicate of rule k (k in 1..37) of get_ff38_code
FF38Rule(k, s) == Between(FF38_RANGES[k][1], s, FF38_RANGES[k][2])

\* get_ff38_code has no single-value equality term
FF38_SINGLETONS == {}

\* the if-chain without its last line: the function falls off its end (None)
ff38_match_NoCatchAll(s) ==
    LET hits == {k \in 1..37 : FF38Rule(k, s)}
    IN  IF hits = {} THEN nan ELSE IntCell(Min(hits))

\* the if-chain of get_ff38_code on an int: the first rule that matches, else 38
ff38_match(s) ==
    LET hits == {k \in 1..37 : FF38Rule(k, s)}
    IN  IF hits = {} THEN IntCell(38) ELSE IntCell(Min(hits))

\* get_ff38_code: NaN for a null value, else the if-chain on int(sic)
get_ff38_code(v) ==
    IF isnull(v) THEN Returned(nan)
    ELSE LET i == int(v)
         IN  IF i.raised THEN i ELSE Returned(ff38_match(i.val))

---------------------------------------------------------------------------
(* The three schemes side by side *)

Schemes == {5, 12, 38}

NAMES(N) == CASE N = 5 -> FF5_NAMES [] N = 12 -> FF12_NAMES [] N = 38 -> FF38_NAMES

Rule(N, k, s) ==
    CASE N = 5 -> FF5Rule(k, s) [] N = 12 -> FF12Rule(k, s) [] N = 38 -> FF38Rule(k, s)

SINGLETONS(N) ==
    CASE N = 5 -> FF5_SINGLETONS [] N = 12 -> FF12_SINGLETONS [] N = 38 -> FF38_SINGLETONS

get_code(N, v) ==
    CASE N = 5 -> get_ff5_code(v) [] N = 12 -> get_ff12_code(v) [] N = 38 -> get_ff38_code(v)

---------------------------------------------------------------------------
(* The apply loop, row by row.                                             *)
(*                                                                         *)
(* df[sic_col].apply(get_ffN_code) hands the SIC value of every row, in    *)
(* order, to the classifier.  Here the batch holds one row for every       *)
(* integer of rows.first..rows.last, and each step is one call of the      *)
(* loop.  The batch is the full run ScanLo..ScanHi, or one short block of  *)
(* BlockLen consecutive integers, inside 0..MaxSic or far outside it.      *)

ScanLo == 0 - Margin
ScanHi == MaxSic + Margin

\* the idle values of the annotator call's variables while the loop is followed
AnnIdle ==
    /\ df = [c \in {"sic"} |-> <<>>]
    /\ sic_col = "sic"
    /\ prefix = "i"
    /\ ind_code_col = "FF_IND_CODE"
    /\ pc = "apply"
    /\ out = [status |-> "none"]

\* where the blocks far outside 0..MaxSic start
FarStarts == {0 - 1000000, 0 - 100000, 32767, 65535, 100000, 1000000}

ScanBatches ==
    {[first |-> ScanLo, last |-> ScanHi]} \cup
    {[first |-> b * BlockLen, last |-> b * BlockLen + BlockLen - 1] :
        b \in 0..(MaxSic \div BlockLen)} \cup
    {[first |-> f, last |-> f + BlockLen - 1] : f \in FarStarts}

InitScan ==
    /\ AnnIdle
    /\ scheme \in Schemes
    /\ rows \in ScanBatches
    /\ row = rows.first
    /\ sic = rows.first - 1
    /\ code = Returned(nan)
    /\ codes = {}
    /\ pairs = {}

\* a call of the classifier has happened: sic and code are its input and result
Called == row > rows.first

\* one call get_ffN_code(row) of the loop, r its outcome
ApplyStep(r) ==
    /\ row <= rows.last
    /\ sic' = row
    /\ code' = r
    /\ codes' = IF Between(0, row, MaxSic) /\ ~r.raised THEN codes \cup {r.val} ELSE codes
    /\ row' = row + 1
    /\ UNCHANGED <<annVars, scheme, rows, pairs>>

apply_get_ff5_code == scheme = 5 /\ ApplyStep(get_ff5_code(IntCell(row)))

apply_get_ff12_code == scheme = 12 /\ ApplyStep(get_ff12_code(IntCell(row)))

apply_get_ff38_code == scheme = 38 /\ ApplyStep(get_ff38_code(IntCell(row)))

NextScan == apply_get_ff5_code \/ apply_get_ff12_code \/ apply_get_ff38_code

SpecClassify == InitScan /\ [][NextScan]_vars

---------------------------------------------------------------------------
(* Claims about the classifiers, under SpecClassify *)

\* C1 (totality): every integer in 0..MaxSic is given, by each scheme's
\* classifier, one code, an integer of 1..N, and no error is raised.
C1_Totality ==
    (Called /\ Between(0, sic, MaxSic)) =>
        /\ ~code.raised
        /\ code.val.kind = "int"
        /\ code.val.val \in 1..scheme

C1_Witness ==
    /\ Called /\ scheme = 38 /\ sic = MaxSic
    /\ ~code.raised /\ code.val = IntCell(37)

\* C5 (out-of-range fall-through): an integer below 0 or above MaxSic matches
\* none of the rules 1..N-1 and is given the catch-all code N, labelled
\* "Other"; no error is raised.
C5_OutOfRange ==
    (Called /\ (sic < 0 \/ sic > MaxSic)) =>
        /\ \A k \in 1..(scheme - 1) : ~Rule(scheme, k, sic)
        /\ ~code.raised
        /\ code.val = IntCell(scheme)
        /\ NAMES(scheme)[scheme] = "Other"

C5_Witness ==
    /\ Called /\ scheme = 38 /\ sic = MaxSic + 1
    /\ ~code.raised /\ code.val = IntCell(38)

\* C6 (documented reference points): 12 groups: 1311 -> 4 Enrgy, 2834 -> 10
\* Hlth, 3571 -> 6 BusEq, 100 -> 1 NoDur; 5 groups: 1500 -> 5 Other, 8001 -> 4
\* Hlth; 38 groups: 900 -> 1 Agric, 6797 -> 35 Money, 9100 -> 37 Govt.
C6_Points ==
    {<<12, 1311, 4, "Enrgy">>, <<12, 2834, 10, "Hlth">>, <<12, 3571, 6, "BusEq">>,
     <<12, 100, 1, "NoDur">>, <<5, 1500, 5, "Other">>, <<5, 8001, 4, "Hlth">>,
     <<38, 900, 1, "Agric">>, <<38, 6797, 35, "Money">>, <<38, 9100, 37, "Govt">>}

C6_ReferencePoints ==
    \A p \in C6_Points :
        (Called /\ scheme = p[1] /\ sic = p[2]) =>
            /\ ~code.raised
            /\ code.val = IntCell(p[3])
            /\ NAMES(p[1])[p[3]] = p[4]

C6_Witness ==
    /\ Called /\ scheme = 12 /\ sic = 2834
    /\ ~code.raised /\ code.val = IntCell(10)

\* C7 (code/label key domains agree): once every integer of 0..MaxSic has
\* been classified, the codes returned are exactly 1..N, which is the key set
\* of the scheme's name table.
C7_KeyDomains ==
    (rows.first <= 0 /\ row > MaxSic) =>
        /\ codes = {IntCell(k) : k \in 1..scheme}
        /\ codes = {IntCell(k) : k \in DOMAIN NAMES(scheme)}

C7_Witness ==
    /\ rows.first <= 0 /\ row > MaxSic /\ scheme = 38
    /\ Cardinality(codes) = 38

\* C9 (rule disjointness): no integer satisfies the predicate of more than one
\* of the rules 1..N-1 of a scheme.
C9_Disjoint ==
    Called => Cardinality({k \in 1..(scheme - 1) : Rule(scheme, k, sic)}) <= 1

\* C10 (no shadowed singleton): classifying the value of a single-value
\* equality term returns the code of the rule that lists the term.
C10_SingletonsReachable ==
    Called =>
        \A p \in SINGLETONS(scheme) :
            (sic = p[1]) => (~code.raised /\ code.val = IntCell(p[2]))

---------------------------------------------------------------------------
(* The 5-group and the 12-group annotator on the same batch.               *)
(*                                                                         *)
(* assign_ff5_industry and assign_ff12_industry are each run on the batch  *)
(* rows.first..rows.last; the two apply loops are followed side by side,   *)
(* one row of both per step.                                               *)

InitCompare ==
    /\ AnnIdle
    /\ scheme = 0
    /\ rows \in ScanBatches
    /\ row = rows.first
    /\ sic = rows.first - 1
    /\ code = Returned(nan)
    /\ codes = {}
    /\ pairs = {}

\* get_ff12_code(row) and get_ff5_code(row), the pair of their codes kept
apply_get_ff12_and_ff5_code ==
    /\ row <= rows.last
    /\ LET r12 == get_ff12_code(IntCell(row))
           r5 == get_ff5_code(IntCell(row))
       IN  pairs' = IF Between(0, row, MaxSic) /\ ~r12.raised /\ ~r5.raised
                    THEN pairs \cup {<<r12.val, r5.val>>} ELSE pairs
    /\ sic' = row
    /\ row' = row + 1
    /\ UNCHANGED <<annVars, scheme, rows, code, codes>>

NextCompare == apply_get_ff12_and_ff5_code

SpecCompare == InitCompare /\ [][NextCompare]_vars

\* the pairs are those of a mapping: a 12-group code comes with one 5-group code
IsMapping(ps) == \A p \in ps, q \in ps : (p[1] = q[1]) => (p[2] = q[2])

\* C11 (the 5-group scheme is not a merge of 12-group codes): once every
\* integer of 0..MaxSic has been classified by both, two of them have got the
\* same 12-group code and different 5-group codes, so that no mapping f of
\* 12-group codes to 5-group codes gives get_ff5_code(v) = f(get_ff12_code(v))
\* for all of them.
C11_NotAMerge ==
    (rows.first <= 0 /\ row > MaxSic) => ~IsMapping(pairs)

C11_Witness ==
    /\ rows.first <= 0 /\ row > MaxSic
    /\ <<IntCell(12), IntCell(3)>> \in pairs
    /\ <<IntCell(12), IntCell(5)>> \in pairs

---------------------------------------------------------------------------
(* The annotators: assign_ffN_industry(df, sic_col, prefix, ind_code_col) *)

\* df[c] = col: a column of that name is replaced, any other name is added
setcol(d, c, col) == [x \in (DOMAIN d) \cup {c} |-> IF x = c THEN col ELSE d[x]]

\* the name f'{prefix}{i}' of indicator column i
indicator_name(pf, i) == pf \o ToString(i)

\* df[sic_col].apply(get_ffN_code): the column of codes, or the exception of
\* the first row whose call raises
apply(N, col) ==
    LET res == [r \in DOMAIN col |-> get_code(N, col[r])]
        bad == {r \in DOMAIN col : res[r].raised}
    IN  IF bad # {} THEN res[Min(bad)]
        ELSE Returned([r \in DOMAIN col |-> res[r].val])

\* df[ind_code_col].map(FFN_NAMES): the name of a code that is a key of the
\* table, NaN for anything else
map_names(N, col) ==
    [r \in DOMAIN col |->
        IF col[r].kind = "int" /\ col[r].val \in DOMAIN NAMES(N)
        THEN StrCell(NAMES(N)[col[r].val]) ELSE nan]

\* (column >= i).astype(int): >= written for ==
eq_astype_int_Geq(col, i) ==
    [r \in DOMAIN col |->
        IF col[r].kind = "int" /\ col[r].val >= i THEN IntCell(1) ELSE IntCell(0)]

\* (column == i).astype(int): 1 where the cell is the number i, 0 elsewhere
\* (NaN and text equal no number)
eq_astype_int(col, i) ==
    [r \in DOMAIN col |->
        IF \/ col[r].kind = "int" /\ col[r].val = i
           \/ col[r].kind = "float" /\ col[r].tenths = 10 * i
        THEN IntCell(1) ELSE IntCell(0)]

\* for i in range(i, N + 1): df[f'{prefix}{i}'] = (df[ind_code_col] == i).astype(int)
RECURSIVE one_hot(_, _, _, _, _)
one_hot(d, pf, ic, i, N) ==
    IF i > N THEN d
    ELSE one_hot(setcol(d, indicator_name(pf, i), eq_astype_int(d[ic], i)),
                 pf, ic, i + 1, N)

\* the body shared by the three annotators, N the number of groups
assign_ff_industry(N, d, sc, pf, ic) ==
    LET cs == apply(N, d[sc])
    IN  IF cs.raised THEN [status |-> "raised", exc |-> cs.exc]
        ELSE LET d1 == setcol(d, ic, cs.val)
                 d2 == setcol(d1, "FF_IND", map_names(N, d1[ic]))
             IN  [status |-> "returned", df |-> one_hot(d2, pf, ic, 1, N)]

assign_ff5_industry(d, sc, pf, ic) == assign_ff_industry(5, d, sc, pf, ic)

assign_ff12_industry(d, sc, pf, ic) == assign_ff_industry(12, d, sc, pf, ic)

assign_ff38_industry(d, sc, pf, ic) == assign_ff_industry(38, d, sc, pf, ic)

\* without df = df.copy() the columns are written into the caller's batch
caller_df_NoCopy(d, res) == IF res.status = "returned" THEN res.df ELSE d

\* the caller's batch after the call: df = df.copy() makes the function work
\* on a copy, so the caller's batch is as before
caller_df(d, res) == d

---------------------------------------------------------------------------
(* One annotator call on a small batch *)

\* SIC values of the input rows: integers inside and outside 0..MaxSic, a
\* missing value, text that is no number, text that is one, a float
SicValues ==
    {IntCell(1311), IntCell(8001), IntCell(0 - 1), nan,
     StrCell("abc"), StrCell(" 2834"), FloatCell(99999)}

SicCols == {"sic", "siccd"}
Prefixes == {"i", "d"}
IndCodeCols == {"FF_IND_CODE", "FF_IND", "i1", "sic"}
\* the other fields of the input batch
ExtraCols == {{}, {"gvkey"}, {"FF_IND", "i1", "FF_IND_CODE"}}

\* the batches of n rows: the SIC column sc, and the other fields xs
Batches(sc, xs, n) ==
    {[c \in {sc} \cup xs |-> IF c = sc THEN col ELSE [r \in 1..n |-> StrCell("old")]] :
        col \in [1..n -> SicValues]}

\* the idle values of the apply loop's variables during an annotator call
ScanIdle ==
    /\ rows = [first |-> 0, last |-> 0 - 1]
    /\ row = 0
    /\ sic = 0 - 1
    /\ code = Returned(nan)
    /\ codes = {}
    /\ pairs = {}

Init ==
    /\ ScanIdle
    /\ scheme = 0
    /\ pc = "ready"
    /\ out = [status |-> "none"]
    /\ sic_col \in SicCols
    /\ prefix \in Prefixes
    /\ ind_code_col \in IndCodeCols
    /\ \E xs \in ExtraCols, n \in 0..MaxRows : df \in Batches(sic_col, xs, n)

\* the call, res its outcome
Call(N, res) ==
    /\ pc = "ready"
    /\ pc' = "done"
    /\ scheme' = N
    /\ out' = res
    /\ df' = caller_df(df, res)
    /\ UNCHANGED <<sic_col, prefix, ind_code_col, scanVars>>

Call_assign_ff5_industry ==
    Call(5, assign_ff5_industry(df, sic_col, prefix, ind_code_col))

Call_assign_ff12_industry ==
    Call(12, assign_ff12_industry(df, sic_col, prefix, ind_code_col))

Call_assign_ff38_industry ==
    Call(38, assign_ff38_industry(df, sic_col, prefix, ind_code_col))

Next ==
    \/ Call_assign_ff5_industry
    \/ Call_assign_ff12_industry
    \/ Call_assign_ff38_industry

Spec == Init /\ [][Next]_vars

---------------------------------------------------------------------------
(* Claims about the annotators, under Spec *)

\* the rows of the batch
Rows == DOMAIN df[sic_col]

\* the names of the N indicator fields
IndicatorNames(pf, N) == {indicator_name(pf, i) : i \in 1..N}

\* the names of all the fields an annotator writes
OutputNames(pf, ic, N) == {ic, "FF_IND"} \cup IndicatorNames(pf, N)

\* the code field, the label field and the indicator fields are N + 2
\* different fields
OutputNamesDistinct ==
    /\ ind_code_col # "FF_IND"
    /\ ind_code_col \notin IndicatorNames(prefix, scheme)

\* a SIC value that is present and that int() refuses
NonCoercible(v) == v.kind = "str" /\ ParseInt(v.text).raised

\* the N indicator fields of row r are 0, but for a 1 at position k (k = 0:
\* all of them are 0)
OneHotAt(r, k) ==
    \A i \in 1..scheme :
        out.df[indicator_name(prefix, i)][r] = IntCell(IF i = k THEN 1 ELSE 0)

C4_NonCoercibleAsMissing ==
    (pc = "done" /\ OutputNamesDistinct /\ \E r \in Rows : NonCoercible(df[sic_col][r])) =>
        /\ out.status = "returned"
        /\ \A r \in Rows :
            IF NonCoercible(df[sic_col][r])
            THEN /\ out.df[ind_code_col][r] = nan
                 /\ out.df["FF_IND"][r] = nan
                 /\ OneHotAt(r, 0)
            ELSE out.df[ind_code_col][r] = get_code(scheme, df[sic_col][r]).val

\* C8 as first stated (original fields preserved, whatever the names): the
\* call leaves the caller's batch as it was, and the batch it returns holds
\* every field of the input with its original value.
C8_AnyNames ==
    [][(pc = "ready" /\ pc' = "done") =>
          /\ df' = df
          /\ (out'.status = "returned") =>
                 \A c \in DOMAIN df : c \in DOMAIN out'.df /\ out'.df[c] = df[c]
      ]_vars

\* C8, amended (original fields preserved): the call leaves the caller's
\* batch as it was; the batch it returns holds the code field, FF_IND and the N
\* indicator fields, and, when none of these names is the name of a field of
\* the input, every field of the input with its original value and no other
\* field.
C8_FieldsPreserved ==
    [][(pc = "ready" /\ pc' = "done") =>
          /\ df' = df
          /\ (out'.status = "returned") =>
                 LET new == OutputNames(prefix, ind_code_col, scheme')
                 IN  /\ new \subseteq DOMAIN out'.df
                     /\ (new \cap DOMAIN df = {}) =>
                            /\ DOMAIN out'.df = (DOMAIN df) \cup new
                            /\ \A c \in DOMAIN df : out'.df[c] = df[c]
      ]_vars

C8_Witness ==
    /\ pc = "done" /\ out.status = "returned"
    /\ OutputNames(prefix, ind_code_col, scheme) \cap DOMAIN df = {}
    /\ "gvkey" \in DOMAIN df
    /\ Len(df[sic_col]) >= 1
    /\ out.df["gvkey"] = df["gvkey"]
    /\ out.df[sic_col] = df[sic_col]

=============================================================================
